---- MODULE Spec2Model ----
(***************************************************************************)
(* GlickoTR rating update (glicko.ts) and the glicko-update edge function  *)
(* (index.ts).                                                             *)
(*                                                                         *)
(* Numbers.  The TypeScript code computes with IEEE-754 binary floating    *)
(* point (JavaScript `number`).  The model computes with binary floating   *)
(* point of the same shape: a value is mantissa * 2^exponent, every        *)
(* operation rounds its exact result to the nearest representable value    *)
(* (ties to even), overflow gives +-Infinity, invalid operations give NaN. *)
(* The exponent range is that of a double; the mantissa has MantBits bits  *)
(* instead of 53 (TLC's integers are 32 bits wide).  Signed zero and       *)
(* gradual underflow are not modelled: a result below the smallest         *)
(* subnormal double is 0.                                                  *)
(*                                                                         *)
(* Style.  A local of the code is a parameter of the operator that holds   *)
(* the statements after its assignment, so that it is evaluated once, and  *)
(* in the order of the statements.                                         *)
(***************************************************************************)
EXTENDS Integers, Sequences, FiniteSets, TLC

\* Bits of mantissa of the model's floating point numbers.
MantBits == 24

W == 2^MantBits
HalfW == 2^(MantBits - 1)
\* Exponent sentinel of the non-finite values.
ESpecial == 2^20
\* A finite double is below 2^1024; the smallest positive one is 2^(-1074).
MaxBin == 2^10
MinBin == -(2^10 + 50)

\* TLC evaluates the argument of an operator where the operator first uses
\* it.  InOrder(<<v1, ..., vn>>) evaluates v1, ..., vn one after the other,
\* as the statements of the code do; it is always TRUE.
InOrder(vals) == Len(vals) >= 0

NaN == [m |-> 0, e |-> ESpecial]
PInf == [m |-> 1, e |-> ESpecial]
NInf == [m |-> -1, e |-> ESpecial]
Zero == [m |-> 0, e |-> 0]
One == [m |-> HalfW, e |-> 1 - MantBits]
Two == [m |-> HalfW, e |-> 2 - MantBits]
OneHalf == [m |-> HalfW, e |-> -MantBits]

IsNaN(x) == x.e = ESpecial /\ x.m = 0
IsInf(x) == x.e = ESpecial /\ x.m # 0
isFinite(x) == x.e # ESpecial
IsZero(x) == x.e # ESpecial /\ x.m = 0
Sgn(x) == IF x.m > 0 THEN 1 ELSE IF x.m < 0 THEN -1 ELSE 0
Mag(n) == IF n < 0 THEN -n ELSE n
InfOf(s) == IF s < 0 THEN NInf ELSE PInf

\* Number of bits of n >= 0 (0 for 0), n < 2^31.
RECURSIVE BitLenBelow(_, _)
BitLenBelow(n, len) == IF n >= 2^(len - 1) THEN len ELSE BitLenBelow(n, len - 1)
BitLen(n) ==
  IF n >= 2^28 THEN (IF n >= 2^30 THEN 31 ELSE IF n >= 2^29 THEN 30 ELSE 29)
  ELSE IF n = 0 THEN 0 ELSE BitLenBelow(n, 28)

\* s * q * 2^ex for a mantissa q, or what it overflows or underflows to.
Pack(s, q, ex) ==
  IF ex + MantBits > MaxBin THEN InfOf(s)
  ELSE IF ex + MantBits - 1 < MinBin THEN Zero
  ELSE [m |-> s * q, e |-> ex]

\* The same when rounding up may have carried q1 to 2^MantBits.
Carry(s, q1, ex) == IF q1 = W THEN Pack(s, HalfW, ex + 1) ELSE Pack(s, q1, ex)

\* Rounding of q0 + r / (2 * half) to an integer, ties to even.
RoundOff(s, q0, r, half, ex) ==
  Carry(s, IF r > half \/ (r = half /\ q0 % 2 = 1) THEN q0 + 1 ELSE q0, ex)

\* mag has sh bits more than a mantissa.
RoundBy(s, mag, e, sh) ==
  IF sh <= 0 THEN Pack(s, mag * 2^(-sh), e + sh)
  ELSE RoundOff(s, mag \div 2^sh, mag % 2^sh, 2^(sh - 1), e + sh)

\* The float nearest to s * mag * 2^e (s = +-1, 0 <= mag < 2^31), ties to even.
Round(s, mag, e) ==
  IF mag = 0 THEN Zero ELSE RoundBy(s, mag, e, BitLen(mag) - MantBits)

\* The float nearest to n * 2^e, |n| < 2^31.
RoundInt(n, e) == Round(IF n < 0 THEN -1 ELSE 1, Mag(n), e)

FromInt(n) == RoundInt(n, 0)

FNeg(x) == [m |-> -x.m, e |-> x.e]
FAbs(x) == [m |-> Mag(x.m), e |-> x.e]

\* x < y for finite x, y.
FinLt(x, y) ==
  IF Sgn(x) # Sgn(y) THEN Sgn(x) < Sgn(y)
  ELSE IF Sgn(x) = 0 THEN FALSE
  ELSE IF x.e # y.e THEN (IF Sgn(x) > 0 THEN x.e < y.e ELSE x.e > y.e)
  ELSE x.m < y.m

\* The comparison operators of JavaScript: any comparison with NaN is false.
FLt(x, y) ==
  IF IsNaN(x) \/ IsNaN(y) THEN FALSE
  ELSE IF IsInf(x) THEN x.m < 0 /\ ~(IsInf(y) /\ y.m < 0)
  ELSE IF IsInf(y) THEN y.m > 0
  ELSE FinLt(x, y)
FEq(x, y) == ~IsNaN(x) /\ ~IsNaN(y) /\ x = y
FGt(x, y) == FLt(y, x)
FLe(x, y) == FLt(x, y) \/ FEq(x, y)
FGe(x, y) == FLe(y, x)

\* Math.max, Math.min: NaN if either argument is NaN.
FMax(x, y) == IF IsNaN(x) \/ IsNaN(y) THEN NaN ELSE IF FLt(x, y) THEN y ELSE x
FMin(x, y) == IF IsNaN(x) \/ IsNaN(y) THEN NaN ELSE IF FLt(y, x) THEN y ELSE x

\* Guard bits kept below the mantissa in a sum.
Guard == 30 - MantBits

\* x + y where y's mantissa ym is shifted right by sh - 1 bits below Guard
\* bits; the bits shifted out are kept as a sticky bit.
AddShifted(x, y, sh, ym) ==
  RoundInt(x.m * 2^Guard
             + Sgn(y) * (2 * (ym \div 2^sh) + (IF ym % 2^sh # 0 THEN 1 ELSE 0)),
           x.e - Guard)

\* x + y where d = x.e - y.e >= 0.
AddBy(x, y, d) ==
  IF d > MantBits + 2 THEN x
  ELSE IF d <= Guard THEN RoundInt(x.m * 2^d + y.m, y.e)
  ELSE AddShifted(x, y, d - Guard + 1, Mag(y.m))

\* x + y for finite nonzero x, y with x.e >= y.e.
AddAligned(x, y) == AddBy(x, y, x.e - y.e)

FAdd(x, y) ==
  IF x.e # ESpecial /\ y.e # ESpecial
    THEN IF x.m = 0 THEN y
         ELSE IF y.m = 0 THEN x
         ELSE AddAligned(IF x.e >= y.e THEN x ELSE y,
                         IF x.e >= y.e THEN y ELSE x)
  ELSE IF IsNaN(x) \/ IsNaN(y) THEN NaN
  ELSE IF IsInf(x) THEN (IF IsInf(y) /\ y.m # x.m THEN NaN ELSE x)
  ELSE y

FSub(x, y) == FAdd(x, FNeg(y))

\* Split point of a mantissa for the long multiplication.
HalfBits == (MantBits + 1) \div 2
\* Bits of the exact product that are dropped (into a sticky bit).
MulDrop == 2 * MantBits - 29

\* hh * h^2 + t * h + lo is the exact product; dl = 2^MulDrop / h.
MulSum(s, hh, t, lo, h, dl, ex) ==
  Round(s,
        2 * (hh * 2^(2 * HalfBits - MulDrop) + t \div dl)
          + (IF t % dl # 0 \/ lo % h # 0 THEN 1 ELSE 0),
        ex)

\* The product of the mantissas ah * h + al and bh * h + bl.
MulParts(s, ah, al, bh, bl, h, ex) ==
  MulSum(s, ah * bh, ah * bl + al * bh + (al * bl) \div h, al * bl, h,
         2^(MulDrop - HalfBits), ex)

MulMag(s, a, b, h, ex) == MulParts(s, a \div h, a % h, b \div h, b % h, h, ex)

FMul(x, y) ==
  IF x.e = ESpecial \/ y.e = ESpecial
    THEN (IF x.m = 0 \/ y.m = 0 THEN NaN ELSE InfOf(Sgn(x) * Sgn(y)))
  ELSE IF x.m = 0 \/ y.m = 0 THEN Zero
  ELSE MulMag(IF (x.m > 0) = (y.m > 0) THEN 1 ELSE -1, Mag(x.m), Mag(y.m),
              2^HalfBits, x.e + y.e + MulDrop - 1)

\* Long division: `bits` more quotient bits of r / b, Guard bits at a time.
RECURSIVE DivBits(_, _, _, _)
DivBits(q, r, b, bits) ==
  IF bits = 0 THEN <<q, r>>
  ELSE LET c == IF bits < Guard THEN bits ELSE Guard
       IN DivBits(q * 2^c + (r * 2^c) \div b, (r * 2^c) % b, b, bits - c)

\* Quotient and remainder rounded, the remainder as a sticky bit.
DivRound(s, qr, ex) == Round(s, 2 * qr[1] + (IF qr[2] # 0 THEN 1 ELSE 0), ex)

DivMag(s, a, b, ex) == DivRound(s, DivBits(a \div b, a % b, b, MantBits + 2), ex)

FDiv(x, y) ==
  IF x.e = ESpecial \/ y.e = ESpecial
    THEN (IF IsNaN(x) \/ IsNaN(y) \/ (IsInf(x) /\ IsInf(y)) THEN NaN
          ELSE IF IsInf(x) THEN InfOf(x.m * (IF y.m < 0 THEN -1 ELSE 1))
          ELSE Zero)
  ELSE IF y.m = 0 THEN (IF x.m = 0 THEN NaN ELSE InfOf(Sgn(x)))
  ELSE IF x.m = 0 THEN Zero
  ELSE DivMag(IF (x.m > 0) = (y.m > 0) THEN 1 ELSE -1, Mag(x.m), Mag(y.m),
              x.e - y.e - MantBits - 3)

\* The float nearest to n / d: how the decimal literals of the code are read.
FromRatio(n, d) == FDiv(FromInt(n), FromInt(d))

\* Math.sqrt: one root bit per step from the radicand's bit pairs (the pairs
\* below the mantissa are zero); rem is the remainder so far.
RECURSIVE SqrtBits(_, _, _, _, _)
SqrtBits(n, pairs, root, rem, steps) ==
  IF steps = 0 THEN <<root, rem>>
  ELSE LET r4 == rem * 4 + (IF pairs > 0 THEN (n \div 4^(pairs - 1)) % 4 ELSE 0)
       IN IF r4 >= root * 4 + 1
            THEN SqrtBits(n, pairs - 1, root * 2 + 1, r4 - (root * 4 + 1),
                          steps - 1)
            ELSE SqrtBits(n, pairs - 1, root * 2, r4, steps - 1)

\* Bit pairs of a mantissa, and root bits computed.
SqrtPairs == (MantBits + 2) \div 2
SqrtSteps == MantBits + 2

\* The root of n * 2^e2, e2 even.
SqrtMag(n, e2) ==
  DivRound(1, SqrtBits(n, SqrtPairs, 0, 0, SqrtSteps),
           (e2 \div 2) - (SqrtSteps - SqrtPairs) - 1)

FSqrt(x) ==
  IF IsNaN(x) \/ x.m < 0 THEN NaN
  ELSE IF IsInf(x) \/ x.m = 0 THEN x
  ELSE IF x.e % 2 = 1 THEN SqrtMag(2 * x.m, x.e - 1)
  ELSE SqrtMag(x.m, x.e)

\* ln 2 in two parts: n * Ln2Hi is exact for |n| < 2^11.
Ln2Hi == FromRatio(5678, 8192)
Ln2Lo == FDiv(FromRatio(319461849, 1000000000), FromInt(10000))
InvLn2 == FDiv(One, FAdd(Ln2Hi, Ln2Lo))

\* <<1/k!, ..., 1/n!>> with fact = k!
RECURSIVE InvFactorials(_, _, _)
InvFactorials(k, n, fact) ==
  IF k > n THEN <<>>
  ELSE <<FromRatio(1, fact)>> \o InvFactorials(k + 1, n, fact * (k + 1))

\* <<1/k, 1/(k + 2), ..., 1/n>>
RECURSIVE OddReciprocals(_, _)
OddReciprocals(k, n) ==
  IF k > n THEN <<>> ELSE <<FromRatio(1, k)>> \o OddReciprocals(k + 2, n)

\* The coefficients of the series of exp and of atanh
ExpCoef == InvFactorials(0, 9, 1)
LogCoef == OddReciprocals(1, 13)

\* c[1] + z*(c[2] + z*(... + z*c[Len(c)])): acc is the value of the part
\* from position i + 1 on.
RECURSIVE HornerFrom(_, _, _, _)
HornerFrom(c, i, z, acc) ==
  IF i = 0 \/ IsNaN(acc) THEN acc
  ELSE HornerFrom(c, i - 1, z, FAdd(c[i], FMul(z, acc)))

Horner(c, z) == HornerFrom(c, Len(c) - 1, z, c[Len(c)])

\* The integer nearest to mag / 2^sh.
NearMag(mag, sh) ==
  IF 2 * (mag % 2^sh) >= 2^sh THEN mag \div 2^sh + 1 ELSE mag \div 2^sh

\* The integer nearest to a finite x, |x| < 2^12.
NearInt(x) ==
  IF x.m = 0 \/ -x.e > 30 THEN 0
  ELSE IF x.e >= 0 THEN x.m * 2^x.e
  ELSE Sgn(x) * NearMag(Mag(x.m), -x.e)

\* x * 2^n for finite x.
Scale2(x, n) ==
  IF x.m = 0 THEN x
  ELSE IF x.e + n + MantBits > MaxBin THEN InfOf(Sgn(x))
  ELSE IF x.e + n + MantBits - 1 < MinBin THEN Zero
  ELSE [m |-> x.m, e |-> x.e + n]

\* e^x = 2^n * e^r with x = n ln 2 + r, |r| <= (ln 2)/2.
ExpReduced(r, n) == CASE InOrder(<<r>>) -> Scale2(Horner(ExpCoef, r), n)

ExpSplit(x, n, nf) ==
  ExpReduced(FSub(FSub(x, FMul(nf, Ln2Hi)), FMul(nf, Ln2Lo)), n)

ExpBy(x, n) == ExpSplit(x, n, FromInt(n))

\* Math.exp
FExp(x) ==
  IF IsNaN(x) THEN NaN
  ELSE IF IsInf(x) THEN (IF x.m > 0 THEN PInf ELSE Zero)
  ELSE IF x.m = 0 THEN One
  ELSE IF x.e + MantBits > 11 THEN (IF x.m > 0 THEN PInf ELSE Zero)
  ELSE ExpBy(x, NearInt(FMul(x, InvLn2)))

\* The mantissa of sqrt 2.
Sqrt2M == FSqrt(Two).m

\* ln x = k ln 2 + ln fr with x = fr * 2^k, fr in [sqrt(1/2), sqrt 2),
\* ln fr = 2 atanh(s), s = (fr - 1)/(fr + 1).
LogSum(kf, lnf) ==
  CASE InOrder(<<lnf>>) -> FAdd(FMul(kf, Ln2Hi), FAdd(lnf, FMul(kf, Ln2Lo)))

LogSeries(k, s) ==
  CASE InOrder(<<s>>) ->
    LogSum(FromInt(k), FMul(FMul(Two, s), Horner(LogCoef, FMul(s, s))))

LogOf(k, fr) == LogSeries(k, FDiv(FSub(fr, One), FAdd(fr, One)))

LogParts(x, big) ==
  LogOf(x.e + MantBits - 1 + (IF big THEN 1 ELSE 0),
        [m |-> x.m, e |-> IF big THEN -MantBits ELSE 1 - MantBits])

\* Math.log
FLog(x) ==
  IF IsNaN(x) \/ x.m < 0 THEN NaN
  ELSE IF x.m = 0 THEN NInf
  ELSE IF IsInf(x) THEN PInf
  ELSE LogParts(x, x.m > Sqrt2M)


(***************************************************************************)
(* glicko.ts                                                               *)
(***************************************************************************)
\* x ** 2
Sq(x) == FMul(x, x)

DEFAULT_MU == FromInt(1500)
DEFAULT_PHI == FromInt(250)
DEFAULT_SIGMA == FromRatio(6, 100)
TAU == OneHalf
EPSILON == FromRatio(1, 1000000)
SCALING_FACTOR == FromRatio(1737178, 10000)
CLAMP_EPSILON == FromRatio(1, 10)
MathPI == FAdd(FromInt(3), FromRatio(141592654, 1000000000))
\* the literals 3, 10, 0.9, 1e6 and 1e-15
Three == FromInt(3)
Ten == FromInt(10)
NineTenths == FromRatio(9, 10)
Million == FromInt(1000000)
Tiny == FDiv(FromRatio(1, 100000000), FromInt(10000000))

scaleDown(rating) ==
  [mu |-> FDiv(FSub(rating.mu, DEFAULT_MU), SCALING_FACTOR),
   phi |-> FDiv(rating.phi, SCALING_FACTOR),
   sigma |-> rating.sigma]


min_rating == FromInt(0)
max_rating == FromInt(5000)

scaleUp(rating_g2) ==
  [mu |-> FMax(min_rating,
               FMin(FAdd(FMul(rating_g2.mu, SCALING_FACTOR), DEFAULT_MU),
                    max_rating)),
   phi |-> FMul(rating_g2.phi, SCALING_FACTOR),
   sigma |-> rating_g2.sigma]

reduceImpact(rating_g2) ==
  FDiv(One,
       FSqrt(FAdd(One,
                  FDiv(FMul(Three, Sq(rating_g2.phi)), Sq(MathPI)))))

\* An expected score that is not clamped
clampScoreNone(score) == score

\* The clamp of the expected score
clampScore(score) ==
  CASE InOrder(<<score>>) ->
    FMax(CLAMP_EPSILON, FMin(score, FSub(One, CLAMP_EPSILON)))

expectScoreOf(exponent) ==
  CASE InOrder(<<exponent>>) -> clampScore(FDiv(One, FAdd(One, FExp(exponent))))

\* An expected score that does not look at the two ratings
expectScoreEven(rating_g2, other_rating_g2, impact) == OneHalf

expectScore(rating_g2, other_rating_g2, impact) ==
  expectScoreOf(FMul(FNeg(impact), FSub(rating_g2.mu, other_rating_g2.mu)))

threshold_games == FromInt(18)
max_retirement_weight == FromRatio(8, 10)

\* The retired weight without the cap Math.min(1.0, ...)
retiredWeightUncapped(total_games) ==
  IF FLe(total_games, Zero) THEN Zero
  ELSE FMul(FDiv(total_games, threshold_games), max_retirement_weight)

\* The weight of a retired match of total_games games
retiredWeight(total_games) ==
  IF FLe(total_games, Zero) THEN Zero
  ELSE FMul(FMin(One, FDiv(total_games, threshold_games)),
            max_retirement_weight)

calculateMatchWeight(st, playerGamesWon, opponentGamesWon) ==
  IF st = "walkover" THEN Zero
  ELSE IF st = "completed" THEN One
  ELSE IF st = "retired"
    THEN retiredWeight(FAdd(playerGamesWon, opponentGamesWon))
  ELSE Zero

max_k == 100
max_iter == 100
\* the bound -700 on the argument of exp in the bracketing search
ExpLow == FromInt(-700)

\* The closure f of determineSigma; c holds the values it captures.
fReturn(a_term, b_term) ==
  CASE InOrder(<<a_term, b_term>>) -> FSub(a_term, b_term)

fTerms(c, x, exp_x, tmp) ==
  CASE InOrder(<<tmp>>) ->
    IF FLt(tmp, Tiny)
      THEN FSub(FDiv(FSub(x, c.alpha), c.tau_squared), One)
      ELSE fReturn(FDiv(FMul(exp_x,
                             FSub(FSub(FSub(c.difference_squared, Sq(c.phi)),
                                       c.variance),
                                  exp_x)),
                        FMul(Two, Sq(tmp))),
                   FDiv(FSub(x, c.alpha), c.tau_squared))

fTmp(c, x, exp_x) ==
  CASE InOrder(<<exp_x>>) ->
    fTerms(c, x, exp_x, FAdd(FAdd(Sq(c.phi), c.variance), exp_x))

f(c, x) == fTmp(c, x, FExp(x))

\* alpha - k * TAU
BAt(c, k) == FSub(c.alpha, FMul(FromInt(k), TAU))

\* The test and pass of the search loop without the safety break k < max_k
SearchAtUncapped(c, s, x) ==
  IF FGe(x, ExpLow)
    THEN IF FGe(f(c, x), Zero)
           THEN [k |-> s.k + 1, evals |-> s.evals + 1, stop |-> FALSE]
           ELSE [k |-> s.k, evals |-> s.evals + 1, stop |-> TRUE]
    ELSE [k |-> s.k, evals |-> s.evals, stop |-> TRUE]

\* One test of the condition of the bracketing search's while loop at
\* x = alpha - k * TAU, and its body k += 1 if the condition holds; evals
\* counts the evaluations of f.
SearchAt(c, s, x) ==
  IF s.k < max_k /\ FGe(x, ExpLow)
    THEN IF FGe(f(c, x), Zero)
           THEN [k |-> s.k + 1, evals |-> s.evals + 1, stop |-> FALSE]
           ELSE [k |-> s.k, evals |-> s.evals + 1, stop |-> TRUE]
    ELSE [k |-> s.k, evals |-> s.evals, stop |-> TRUE]

SearchStep(c, s) == SearchAt(c, s, BAt(c, s.k))

\* The while loop of the search run for at most n tests of its condition
\* (split in halves: TLC's stack does not hold a recursion max_k deep).
RECURSIVE SearchK(_, _, _)
SearchK(c, s, n) ==
  IF s.stop THEN s
  ELSE IF n <= 1 THEN SearchStep(c, s)
  ELSE SearchK(c, SearchK(c, s, n \div 2), n - n \div 2)

\* The end of a pass of the convergence loop: the break on |f_b - f_a|, or
\* iter++.
LoopEnd(a, b, f_a, f_b, iter) ==
  CASE InOrder(<<f_a>>) ->
    IF FLt(FAbs(FSub(f_b, f_a)), EPSILON)
      THEN [end |-> "break", a |-> a, b |-> b, f_a |-> f_a, f_b |-> f_b,
            iter |-> iter]
      ELSE [end |-> "next", a |-> a, b |-> b, f_a |-> f_a, f_b |-> f_b,
            iter |-> iter + 1]

\* f_a after the update that prevents stalling
Damped(f_a, f_b, safe_denom) ==
  IF FLt(FAbs(safe_denom), Tiny) THEN FMul(f_a, OneHalf)
  ELSE FMul(f_a, FDiv(f_b, safe_denom))

\* The new bracket from c and f_c
LoopUpdate(a, b, f_a, f_b, iter, cc, f_c) ==
  IF FLt(FMul(f_c, f_b), Zero)
    THEN LoopEnd(b, cc, f_b, f_c, iter)
    ELSE LoopEnd(a, cc, Damped(f_a, f_b, FAdd(f_b, f_c)), f_c, iter)

\* A break inside the loop body leaves everything as it is.
LoopBreak(a, b, f_a, f_b, iter) ==
  [end |-> "break", a |-> a, b |-> b, f_a |-> f_a, f_b |-> f_b, iter |-> iter]

\* The second try, at the midpoint
LoopRetry(a, b, f_a, f_b, iter, mid, f_mid) ==
  CASE InOrder(<<f_mid>>) ->
    IF ~isFinite(f_mid) THEN LoopBreak(a, b, f_a, f_b, iter)
    ELSE LoopUpdate(a, b, f_a, f_b, iter, mid, f_mid)

LoopChecked(c, a, b, f_a, f_b, iter, c1, f_c1) ==
  CASE InOrder(<<f_c1>>) ->
    IF isFinite(f_c1) THEN LoopUpdate(a, b, f_a, f_b, iter, c1, f_c1)
    ELSE IF FLt(FAbs(FSub(b, a)), FMul(EPSILON, Ten))
      THEN LoopBreak(a, b, f_a, f_b, iter)
    ELSE LoopRetry(a, b, f_a, f_b, iter, FDiv(FAdd(a, b), Two),
                   f(c, FDiv(FAdd(a, b), Two)))

LoopAt(c, a, b, f_a, f_b, iter, c1) ==
  CASE InOrder(<<c1>>) -> LoopChecked(c, a, b, f_a, f_b, iter, c1, f(c, c1))

LoopFrom(c, a, b, f_a, f_b, iter, c0) ==
  LoopAt(c, a, b, f_a, f_b, iter,
         IF isFinite(c0) THEN c0 ELSE FDiv(FAdd(a, b), Two))

\* One pass of the loop body after the two guards; the result says how the
\* pass ended, "break" or "next", with a, b, f_a, f_b, iter as they are then.
LoopBody(c, a, b, f_a, f_b, iter) ==
  LoopFrom(c, a, b, f_a, f_b, iter,
           FAdd(a, FDiv(FMul(FSub(a, b), f_a), FSub(f_b, f_a))))

\* The state of the convergence loop after a pass t of its body
AfterBody(s, t) ==
  CASE InOrder(<<t>>) ->
    [exit |-> IF t.end = "break" THEN "break" ELSE "run",
     a |-> t.a, b |-> t.b, f_a |-> t.f_a, f_b |-> t.f_b,
     iter |-> t.iter, ret |-> s.ret]

\* The test of the loop and its body without the guard on f_a * f_b
ConvergeStepUnguarded(c, s) ==
  IF ~(FGt(FAbs(FSub(s.b, s.a)), EPSILON) /\ s.iter < max_iter)
    THEN [s EXCEPT !.exit = "done"]
  ELSE IF ~isFinite(s.f_a) \/ ~isFinite(s.f_b)
    THEN [s EXCEPT !.exit = "nonfinite", !.ret = c.sigma]
  ELSE AfterBody(s, LoopBody(c, s.a, s.b, s.f_a, s.f_b, s.iter))

\* One test of the condition of the convergence loop with, if it holds, the
\* two guards and the body.  exit says how the loop was left ("run": not
\* yet), ret is the value returned from inside the loop, if any.
ConvergeStep(c, s) ==
  IF ~(FGt(FAbs(FSub(s.b, s.a)), EPSILON) /\ s.iter < max_iter)
    THEN [s EXCEPT !.exit = "done"]
  ELSE IF ~isFinite(s.f_a) \/ ~isFinite(s.f_b)
    THEN [s EXCEPT !.exit = "nonfinite", !.ret = c.sigma]
  ELSE IF FGe(FMul(s.f_a, s.f_b), Zero)
    THEN [s EXCEPT !.exit = "samesign",
                   !.ret = IF FLt(c.variance, Million) THEN c.sigma
                           ELSE FMul(c.sigma, NineTenths)]
  ELSE AfterBody(s, LoopBody(c, s.a, s.b, s.f_a, s.f_b, s.iter))

\* The convergence loop run for at most n tests of its condition.
RECURSIVE Converge(_, _, _)
Converge(c, s, n) ==
  IF s.exit # "run" THEN s
  ELSE IF n <= 1 THEN ConvergeStep(c, s)
  ELSE Converge(c, Converge(c, s, n \div 2), n - n \div 2)

\* What determineSigma returns and what it went through: the branch of the
\* initial bounds, k and the evaluations of f in the search and whether its
\* loop was left, f at the initial bounds, the iterations of the convergence
\* loop and how it was left.
sigmaReturn(c, branch, srch, f_a, f_b, loop) ==
  CASE InOrder(<<loop>>) ->
    [sigma |-> IF loop.exit \in {"nonfinite", "samesign"} THEN loop.ret
               ELSE FExp(FDiv(loop.b, Two)),
     branch |-> branch,
     k |-> srch.k, evals |-> srch.evals, searchEnded |-> srch.stop,
     f_a |-> f_a, f_b |-> f_b,
     iter |-> loop.iter, exit |-> loop.exit]

sigmaLoop(c, branch, srch, b, f_a, f_b) ==
  CASE InOrder(<<f_a, f_b>>) ->
    sigmaReturn(c, branch, srch, f_a, f_b,
                Converge(c, [exit |-> "run", a |-> c.alpha, b |-> b,
                             f_a |-> f_a, f_b |-> f_b, iter |-> 0,
                             ret |-> NaN],
                         max_iter + 1))

sigmaBracket(c, branch, srch, b) ==
  CASE InOrder(<<srch, b>>) ->
    sigmaLoop(c, branch, srch, b, f(c, c.alpha), f(c, b))

sigmaSearched(c, srch) ==
  CASE InOrder(<<srch>>) -> sigmaBracket(c, "search", srch, BAt(c, srch.k))

\* The initial bounds A and B
sigmaBounds(c) ==
  CASE InOrder(<<c>>) ->
    IF FGt(c.difference_squared, FAdd(Sq(c.phi), c.variance))
      THEN sigmaBracket(c, "log", [k |-> 0, evals |-> 0, stop |-> TRUE],
                        FLog(FSub(FSub(c.difference_squared, Sq(c.phi)),
                                  c.variance)))
      ELSE sigmaSearched(c, SearchK(c, [k |-> 1, evals |-> 0, stop |-> FALSE],
                                    max_k + 1))

\* The constants of a call: phi, sigma, difference_squared, alpha,
\* tau_squared, and the variance
sigmaContext(rating_g2, difference, variance) ==
  [phi |-> rating_g2.phi, sigma |-> rating_g2.sigma,
   variance |-> variance,
   difference_squared |-> Sq(difference),
   alpha |-> FLog(Sq(rating_g2.sigma)),
   tau_squared |-> Sq(TAU)]

determineSigmaRun(rating_g2, difference, variance) ==
  sigmaBounds(sigmaContext(rating_g2, difference, variance))

\* The same call up to the first test of the condition of the convergence
\* loop: the bound b, then a, b, f_a, f_b and iter
initialB(c) ==
  IF FGt(c.difference_squared, FAdd(Sq(c.phi), c.variance))
    THEN FLog(FSub(FSub(c.difference_squared, Sq(c.phi)), c.variance))
    ELSE BAt(c, SearchK(c, [k |-> 1, evals |-> 0, stop |-> FALSE],
                        max_k + 1).k)

loopStart(c, b) ==
  CASE InOrder(<<b>>) ->
    [exit |-> "run", a |-> c.alpha, b |-> b, f_a |-> f(c, c.alpha),
     f_b |-> f(c, b), iter |-> 0, ret |-> NaN]

\* What is returned when the loop has been left
loopReturn(s) ==
  IF s.exit \in {"nonfinite", "samesign"} THEN s.ret
  ELSE FExp(FDiv(s.b, Two))

determineSigma(rating_g2, difference, variance) ==
  determineSigmaRun(rating_g2, difference, variance).sigma

\* Steps 3 to 8 of calculateGlickoTRUpdate from one competitor's perspective:
\* the constants the block computes, and the updated Glicko-2 rating.
perspectiveNew(self_g2, impact, expectedScore, actualScore, clampedVariance, diffTerm, varianceInvTerm, run, newPhi_g2) ==
  CASE InOrder(<<newPhi_g2>>) ->
    [impact |-> impact, expectedScore |-> expectedScore,
     actualScore |-> actualScore, clampedVariance |-> clampedVariance,
     diffTerm |-> diffTerm, varianceInvTerm |-> varianceInvTerm,
     run |-> run,
     updated_g2 |-> [mu |-> FAdd(self_g2.mu, FMul(Sq(newPhi_g2), diffTerm)),
                     phi |-> newPhi_g2,
                     sigma |-> run.sigma]]

\* 6. phi*
phiStar(self_g2, newSigma) == FSqrt(FAdd(Sq(self_g2.phi), Sq(newSigma)))

perspectiveSigma(self_g2, impact, expectedScore, actualScore, clampedVariance, diffTerm, varianceInvTerm, run) ==
  CASE InOrder(<<run>>) ->
    perspectiveNew(self_g2, impact, expectedScore, actualScore,
                   clampedVariance, diffTerm, varianceInvTerm, run,
                   FDiv(One,
                        FSqrt(FAdd(FDiv(One, Sq(phiStar(self_g2, run.sigma))),
                                   varianceInvTerm))))

perspectiveTerms(self_g2, impact, expectedScore, actualScore, clampedVariance, diffTerm, varianceInvTerm) ==
  CASE InOrder(<<clampedVariance, diffTerm, varianceInvTerm>>) ->
    perspectiveSigma(self_g2, impact, expectedScore, actualScore,
                     clampedVariance, diffTerm, varianceInvTerm,
                     determineSigmaRun(self_g2, diffTerm, clampedVariance))

perspectiveScore(self_g2, matchWeight, actualScore, impact, expectedScore) ==
  CASE InOrder(<<expectedScore>>) ->
    perspectiveTerms(
      self_g2, impact, expectedScore, actualScore,
      FMin(FDiv(One, FMul(FMul(Sq(impact), expectedScore),
                          FSub(One, expectedScore))),
           Million),
      FMul(FMul(matchWeight, impact), FSub(actualScore, expectedScore)),
      FMul(FMul(FMul(matchWeight, Sq(impact)), expectedScore),
           FSub(One, expectedScore)))

perspectiveImpact(self_g2, other_g2, matchWeight, actualScore, impact) ==
  CASE InOrder(<<impact>>) ->
    perspectiveScore(self_g2, matchWeight, actualScore, impact,
                     expectScore(self_g2, other_g2, impact))

perspective(self_g2, other_g2, matchWeight, actualScore) ==
  perspectiveImpact(self_g2, other_g2, matchWeight, actualScore,
                    reduceImpact(other_g2))

\* totalGames, and actualScorePlayer from it
actualScoreAt(playerGamesWon, totalGames) ==
  IF FLe(totalGames, Zero) THEN OneHalf ELSE FDiv(playerGamesWon, totalGames)

\* An actual score that does not look at the games
actualScoreEven(playerGamesWon, opponentGamesWon) == OneHalf

actualScoreOf(playerGamesWon, opponentGamesWon) ==
  actualScoreAt(playerGamesWon, FAdd(playerGamesWon, opponentGamesWon))

\* An early return that is never taken
neverZeroWeight(w) == FALSE

\* The test of the early return
zeroWeight(w) == FLe(w, Zero)

\* "Calculations for Player", with the names in scope there
PlayerBlock(p_g2, o_g2, w, pGames, oGames) ==
  perspective(p_g2, o_g2, w, actualScoreOf(pGames, oGames))

\* The opponent's block made to read the rating the player's block produced
OpponentBlockAfterPlayer(p_g2, o_g2, updatedP_g2, w, actualScoreP) ==
  perspective(o_g2, updatedP_g2, w, FSub(One, actualScoreP))

\* "Calculations for Opponent", with the names in scope there
OpponentBlock(p_g2, o_g2, updatedP_g2, w, actualScoreP) ==
  perspective(o_g2, p_g2, w, FSub(One, actualScoreP))

\* 2. to 9. of calculateGlickoTRUpdate
updateBoth(p_g2, o_g2, w, pGames, oGames, pb) ==
  CASE InOrder(<<pb>>) ->
    [player_new |-> scaleUp(pb.updated_g2),
     opponent_new |->
       scaleUp(OpponentBlock(p_g2, o_g2, pb.updated_g2, w,
                             pb.actualScore).updated_g2)]

updateScaled(p_g2, o_g2, w, pGames, oGames) ==
  updateBoth(p_g2, o_g2, w, pGames, oGames,
             PlayerBlock(p_g2, o_g2, w, pGames, oGames))

updateWeighted(pRating, oRating, pGames, oGames, w) ==
  IF zeroWeight(w)
    THEN [player_new |-> pRating, opponent_new |-> oRating]
    ELSE updateScaled(scaleDown(pRating), scaleDown(oRating), w, pGames,
                      oGames)

calculateGlickoTRUpdate(pRating, oRating, pGames, oGames, st) ==
  updateWeighted(pRating, oRating, pGames, oGames,
                 calculateMatchWeight(st, pGames, oGames))

createDefaultRating == [mu |-> DEFAULT_MU, phi |-> DEFAULT_PHI,
                        sigma |-> DEFAULT_SIGMA]

\* The match weight as the README describes it ("Match Weighting"): the base
\* weight from event_category and status, times PUBLIC_EVENT_MULTIPLIER for
\* a public event.
TIEBREAK_EVENT_BASE_WEIGHT == FromRatio(6, 10)
PUBLIC_EVENT_MULTIPLIER == FromRatio(12, 10)

documentedBaseWeight(cat, st, pGames, oGames) ==
  IF cat = "tiebreak_event"
    THEN IF st = "walkover" \/ FLe(FAdd(pGames, oGames), Zero) THEN Zero
         ELSE TIEBREAK_EVENT_BASE_WEIGHT
    ELSE calculateMatchWeight(st, pGames, oGames)

documentedWeight(cat, pub, st, pGames, oGames) ==
  IF pub THEN FMul(documentedBaseWeight(cat, st, pGames, oGames),
                   PUBLIC_EVENT_MULTIPLIER)
  ELSE documentedBaseWeight(cat, st, pGames, oGames)

(***************************************************************************)
(* The state: one call of calculateGlickoTRUpdate taken statement block by *)
(* statement block, one call of determineSigma, and the request handler of *)
(* index.ts with the tables it reads and writes.                           *)
(***************************************************************************)
VARIABLES
  \* the arguments of calculateGlickoTRUpdate
  playerRating, opponentRating, playerGames, opponentGames, status,
  \* what the README says of the match besides: its category and whether
  \* it belongs to a public event
  event_category, is_public_event,
  \* where the call is, its locals and its return value
  pc, matchWeight, player_g2, opponent_g2, pl, op, result,
  \* the return value of the call before the two competitors were exchanged
  first, swapped,
  \* a call of determineSigma on its own: its arguments and what it did
  sgArgs, sgRun,
  \* a, b, f_a, f_b and iter of that call between two tests of the condition
  \* of its convergence loop
  sgLoop,
  \* the tables matches and profiles, the invocations of the handler, the
  \* transactions applied, and whether the transaction marks the match rated
  matches, profiles, hs, rpcLog, rpcMarksRated

coreVars == <<playerRating, opponentRating, playerGames, opponentGames, status,
              event_category, is_public_event, pc, matchWeight, player_g2,
              opponent_g2, pl, op, result, first, swapped>>
sigmaVars == <<sgArgs, sgRun, sgLoop>>
handlerVars == <<matches, profiles, hs, rpcLog, rpcMarksRated>>
vars == <<coreVars, sigmaVars, handlerVars>>

\* Values of locals that are not assigned yet
NoRating == [mu |-> NaN, phi |-> NaN, sigma |-> NaN]
NoRun == [sigma |-> NaN, branch |-> "none", k |-> 0, evals |-> 0,
          searchEnded |-> FALSE, f_a |-> NaN, f_b |-> NaN, iter |-> 0,
          exit |-> "none"]
NoBlock == [impact |-> NaN, expectedScore |-> NaN, actualScore |-> NaN,
            clampedVariance |-> NaN, diffTerm |-> NaN,
            varianceInvTerm |-> NaN, run |-> NoRun, updated_g2 |-> NoRating]
NoResult == [player_new |-> NoRating, opponent_new |-> NoRating]
NoArgs == [rating_g2 |-> NoRating, difference |-> NaN, variance |-> NaN]
NoLoop == [exit |-> "none", a |-> NaN, b |-> NaN, f_a |-> NaN, f_b |-> NaN,
           iter |-> 0, ret |-> NaN]

\* A public rating from a rating, a deviation and a volatility in thousandths
Rating(mu, phi, sigmaPerMille) ==
  [mu |-> FromInt(mu), phi |-> FromInt(phi),
   sigma |-> FromRatio(sigmaPerMille, 1000)]

\* The number 2^n, and the number after x (x.m + 1 < W)
Pow2(n) == [m |-> HalfW, e |-> n + 1 - MantBits]
NextUp(x) == [m |-> x.m + 1, e |-> x.e]

\* The pairs of ratings, the game scores and the statuses calls are made with
RatingPairs ==
  {<<createDefaultRating, createDefaultRating>>,
   <<Rating(1500, 200, 60), Rating(1400, 30, 60)>>,
   <<Rating(1810, 80, 50), Rating(1230, 300, 80)>>}
Scores == {<<6, 0>>, <<6, 3>>, <<1, 2>>, <<12, 7>>, <<6, 6>>, <<0, 0>>}
Statuses == {"completed", "retired", "walkover"}
\* matches that are not plain private standard matches, and a status the
\* code does not know
Special ==
  {[c |-> "tiebreak_event", pub |-> FALSE, st |-> "completed", sc |-> <<7, 5>>],
   [c |-> "tiebreak_event", pub |-> TRUE, st |-> "completed", sc |-> <<7, 5>>],
   [c |-> "tiebreak_event", pub |-> FALSE, st |-> "completed", sc |-> <<0, 0>>],
   [c |-> "tiebreak_event", pub |-> FALSE, st |-> "walkover", sc |-> <<0, 0>>],
   [c |-> "standard_match", pub |-> TRUE, st |-> "completed", sc |-> <<6, 3>>],
   [c |-> "standard_match", pub |-> TRUE, st |-> "retired", sc |-> <<6, 3>>],
   [c |-> "standard_match", pub |-> FALSE, st |-> "abandoned", sc |-> <<6, 3>>]}
\* Ratings at the ends of what a number can hold: a volatility and
\* deviations of 2^600, deviations of 0
ExtremePairs ==
  {<<[mu |-> FromInt(1500), phi |-> FromInt(200), sigma |-> Pow2(600)],
     Rating(1400, 30, 60)>>,
   <<[mu |-> FromInt(1500), phi |-> Pow2(600), sigma |-> FromRatio(6, 100)],
     [mu |-> FromInt(1400), phi |-> Pow2(600), sigma |-> FromRatio(6, 100)]>>,
   <<Rating(1500, 0, 60), Rating(1400, 0, 60)>>}
\* Pairs of different ratings with equal deviations: apart by 100 and by
\* 410 points, at the two ends of the range of ratings, apart by the
\* smallest step between two numbers, and above the range
EqualDeviationPairs ==
  {<<Rating(1500, 200, 60), Rating(1600, 200, 60)>>,
   <<Rating(1400, 80, 50), Rating(1810, 80, 70)>>,
   <<Rating(0, 250, 60), Rating(5000, 250, 60)>>,
   <<Rating(4999, 200, 60), Rating(5000, 200, 60)>>,
   <<Rating(1500, 200, 60),
     [mu |-> NextUp(FromInt(1500)), phi |-> FromInt(200),
      sigma |-> FromRatio(6, 100)]>>,
   <<Rating(5500, 200, 60), Rating(6000, 200, 60)>>}
Calls ==
  {[r |-> r, c |-> "standard_match", pub |-> FALSE, st |-> st, sc |-> sc] :
     r \in RatingPairs, st \in Statuses, sc \in Scores}
  \cup {[r |-> r, c |-> "standard_match", pub |-> FALSE, st |-> "completed",
         sc |-> <<6, 3>>] : r \in ExtremePairs}
  \cup {[r |-> r, c |-> "standard_match", pub |-> FALSE, st |-> "completed",
         sc |-> <<6, 6>>] : r \in EqualDeviationPairs}
  \cup {[r |-> <<Rating(1500, 200, 60), Rating(1400, 30, 60)>>, c |-> x.c,
         pub |-> x.pub, st |-> x.st, sc |-> x.sc] : x \in Special}
  \cup {[r |-> <<Rating(1342, 250, 60), Rating(1230, 30, 60)>>,
         c |-> "standard_match", pub |-> FALSE, st |-> "completed",
         sc |-> <<7, 5>>]}
  \cup {[r |-> <<Rating(1230, 30, 60), Rating(1810, 80, 70)>>,
         c |-> "standard_match", pub |-> FALSE, st |-> "completed",
         sc |-> <<6, 0>>]}

(***************************************************************************)
(* index.ts: the rows of the tables matches and profiles, and what one     *)
(* invocation of the handler holds                                          *)
(***************************************************************************)
\* matches.score: null, or winner_id, retired_player_id and the sets
NoScore == [present |-> FALSE, winner_id |-> "", retired_player_id |-> "",
            hasSets |-> FALSE, sets |-> <<>>]
Score(winner_id, retired_player_id, sets) ==
  [present |-> TRUE, winner_id |-> winner_id,
   retired_player_id |-> retired_player_id, hasSets |-> TRUE, sets |-> sets]

\* interface MatchData, with the column the transaction stamps
MatchData(id, player1_id, player2_id, score, st) ==
  [id |-> id, player1_id |-> player1_id, player2_id |-> player2_id,
   score |-> score, status |-> st, rating_updated_at |-> ""]
NoMatch == MatchData("", "", "", NoScore, "")

\* interface ProfileData
ProfileData(id, rating, wins, losses) ==
  [id |-> id, rating_mu |-> rating.mu, rating_phi |-> rating.phi,
   rating_sigma |-> rating.sigma, wins |-> wins, losses |-> losses]
NoProfile == ProfileData("", NoRating, 0, 0)

\* The tables before any request: m1 and m2 are confirmed matches that share
\* competitor A (m2 ended by retirement before a game), m3 is not confirmed,
\* m4 has no score, m5 has a competitor without a profile.
InitProfiles ==
  [id \in {"A", "B", "C"} |->
     CASE id = "A" -> ProfileData("A", Rating(1500, 200, 60), 3, 1)
       [] id = "B" -> ProfileData("B", Rating(1400, 30, 60), 0, 0)
       [] id = "C" -> ProfileData("C", Rating(1810, 80, 50), 7, 2)]
InitMatches ==
  [id \in {"m1", "m2", "m3", "m4", "m5"} |->
     CASE id = "m1" -> MatchData("m1", "A", "B",
                                 Score("A", "", <<<<6, 3>>, <<6, 4>>>>),
                                 "confirmed")
       [] id = "m2" -> MatchData("m2", "C", "A", Score("C", "A", <<>>),
                                 "confirmed")
       [] id = "m3" -> MatchData("m3", "A", "B", Score("B", "A", <<>>),
                                 "pending")
       [] id = "m4" -> MatchData("m4", "B", "C", NoScore, "confirmed")
       [] id = "m5" -> MatchData("m5", "A", "D", Score("A", "", <<<<6, 0>>>>),
                                 "confirmed")]

\* The requests: the method, and the body (not JSON, without matchId, or
\* with the id of a match; mX is in no table)
Methods == {"OPTIONS", "GET", "POST"}
Bodies == {"invalid", "", "m1", "m2", "m3", "m4", "m5", "mX"}
\* The invocations that may run at the same time
Handlers == {"h1", "h2"}

\* The arguments of update_ratings_transaction
NoParams ==
  [p_match_id |-> "", p1_id |-> "", p1_mu |-> NaN, p1_phi |-> NaN,
   p1_sigma |-> NaN, p1_wins |-> 0, p1_losses |-> 0, p2_id |-> "",
   p2_mu |-> NaN, p2_phi |-> NaN, p2_sigma |-> NaN, p2_wins |-> 0,
   p2_losses |-> 0, p_match_time |-> ""]
NoResponse == [status |-> 0, kind |-> ""]
\* An invocation that has not received its request: its locals, its
\* response, and the calls it has made so far
NoInvocation ==
  [pc |-> "idle", method |-> "", matchId |-> "", matchData |-> NoMatch,
   player1Profile |-> NoProfile, player2Profile |-> NoProfile,
   update |-> NoResult, params |-> NoParams, response |-> NoResponse,
   trace |-> <<>>]

CoreIdle ==
  /\ playerRating = NoRating /\ opponentRating = NoRating
  /\ playerGames = 0 /\ opponentGames = 0
  /\ status = "" /\ event_category = "" /\ is_public_event = FALSE
  /\ pc = "idle" /\ matchWeight = NaN
  /\ player_g2 = NoRating /\ opponent_g2 = NoRating
  /\ pl = NoBlock /\ op = NoBlock
  /\ result = NoResult /\ first = NoResult /\ swapped = FALSE
HandlerIdle ==
  /\ matches = InitMatches /\ profiles = InitProfiles
  /\ hs = [x \in Handlers |-> NoInvocation]
  /\ rpcLog = <<>> /\ rpcMarksRated = FALSE

SigmaIdle == sgArgs = NoArgs /\ sgRun = NoRun /\ sgLoop = NoLoop

Init ==
  /\ \E call \in Calls :
       /\ playerRating = call.r[1]
       /\ opponentRating = call.r[2]
       /\ playerGames = call.sc[1]
       /\ opponentGames = call.sc[2]
       /\ status = call.st
       /\ event_category = call.c
       /\ is_public_event = call.pub
  /\ pc = "call"
  /\ matchWeight = NaN
  /\ player_g2 = NoRating
  /\ opponent_g2 = NoRating
  /\ pl = NoBlock
  /\ op = NoBlock
  /\ result = NoResult
  /\ first = NoResult
  /\ swapped = FALSE
  /\ SigmaIdle
  /\ HandlerIdle

args == <<playerRating, opponentRating, playerGames, opponentGames, status,
          event_category, is_public_event>>

\* 1. the match weight and the early return, 2. the ratings scaled down
Weigh ==
  /\ pc = "call"
  /\ LET w == calculateMatchWeight(status, FromInt(playerGames),
                                   FromInt(opponentGames))
     IN /\ matchWeight' = w
        /\ IF zeroWeight(w)
             THEN /\ result' = [player_new |-> playerRating,
                                opponent_new |-> opponentRating]
                  /\ pc' = "returned"
                  /\ UNCHANGED <<player_g2, opponent_g2>>
             ELSE /\ player_g2' = scaleDown(playerRating)
                  /\ opponent_g2' = scaleDown(opponentRating)
                  /\ pc' = "player"
                  /\ UNCHANGED result
  /\ UNCHANGED <<args, pl, op, first, swapped, sigmaVars, handlerVars>>

\* 3. to 8. for the player
PlayerCalc ==
  /\ pc = "player"
  /\ pl' = PlayerBlock(player_g2, opponent_g2, matchWeight,
                       FromInt(playerGames), FromInt(opponentGames))
  /\ pc' = "opponent"
  /\ UNCHANGED <<args, matchWeight, player_g2, opponent_g2, op, result,
                 first, swapped, sigmaVars, handlerVars>>

\* 3. to 8. for the opponent
OpponentCalc ==
  /\ pc = "opponent"
  /\ op' = OpponentBlock(player_g2, opponent_g2, pl.updated_g2, matchWeight,
                         pl.actualScore)
  /\ pc' = "scaleUp"
  /\ UNCHANGED <<args, matchWeight, player_g2, opponent_g2, pl, result,
                 first, swapped, sigmaVars, handlerVars>>

\* 9. both ratings scaled up and returned
ScaleBack ==
  /\ pc = "scaleUp"
  /\ result' = [player_new |-> scaleUp(pl.updated_g2),
                opponent_new |-> scaleUp(op.updated_g2)]
  /\ pc' = "returned"
  /\ UNCHANGED <<args, matchWeight, player_g2, opponent_g2, pl, op, first,
                 swapped, sigmaVars, handlerVars>>

\* The caller makes the call again with the two competitors exchanged.
Relabel ==
  /\ pc = "returned"
  /\ ~swapped
  /\ playerRating' = opponentRating
  /\ opponentRating' = playerRating
  /\ playerGames' = opponentGames
  /\ opponentGames' = playerGames
  /\ first' = result
  /\ swapped' = TRUE
  /\ pc' = "call"
  /\ matchWeight' = NaN
  /\ player_g2' = NoRating
  /\ opponent_g2' = NoRating
  /\ pl' = NoBlock
  /\ op' = NoBlock
  /\ result' = NoResult
  /\ UNCHANGED <<status, event_category, is_public_event, sigmaVars, handlerVars>>

Next == Weigh \/ PlayerCalc \/ OpponentCalc \/ ScaleBack \/ Relabel

Spec == Init /\ [][Next]_vars

(***************************************************************************)
(* determineSigma called on its own                                        *)
(***************************************************************************)
\* The arguments: deviations 50 to 350 scaled down, volatilities 0.02 to
\* 0.15, differences -2 to 2, variances 0.1 to 1e6
SigmaPhis == {FDiv(FromInt(n), SCALING_FACTOR) : n \in {50, 150, 250, 350}}
SigmaSigmas == {FromRatio(n, 100) : n \in {2, 6, 15}}
SigmaDiffs == {FromRatio(n, 10) : n \in {-20, -5, 0, 1, 5, 10, 20}}
SigmaVariances ==
  {FromRatio(1, 10), One, FromInt(4), FromInt(100), Million}

InitSigma ==
  /\ CoreIdle
  /\ HandlerIdle
  /\ \E phi \in SigmaPhis, sigma \in SigmaSigmas, d \in SigmaDiffs,
        v \in SigmaVariances :
       sgArgs = [rating_g2 |-> [mu |-> Zero, phi |-> phi, sigma |-> sigma],
                 difference |-> d, variance |-> v]
  /\ sgRun = NoRun
  /\ sgLoop = NoLoop

Solve ==
  /\ sgArgs # NoArgs
  /\ sgRun = NoRun
  /\ sgRun' = determineSigmaRun(sgArgs.rating_g2, sgArgs.difference,
                                sgArgs.variance)
  /\ UNCHANGED <<sgArgs, sgLoop, coreVars, handlerVars>>

NextSigma == Solve

SpecSigma == InitSigma /\ [][NextSigma]_vars

(***************************************************************************)
(* determineSigma called on its own, one test of the condition of the      *)
(* convergence loop at a time                                               *)
(***************************************************************************)
\* The arguments: as above, and numbers that make phi ** 2, tmp ** 2,
\* sigma ** 2 or difference ** 2 overflow
LoopRatings ==
  {[mu |-> Zero, phi |-> FDiv(FromInt(n), SCALING_FACTOR),
    sigma |-> FromRatio(s, 100)] : n \in {50, 350}, s \in {2, 15}}
LoopArgs ==
  {[rating_g2 |-> r, difference |-> FromRatio(d, 10), variance |-> v] :
     r \in LoopRatings, d \in {0, 5, 20},
     v \in {FromRatio(1, 10), FromInt(4), Million}}
  \cup
  {[rating_g2 |-> [mu |-> Zero, phi |-> Pow2(300), sigma |-> FromRatio(6, 100)],
    difference |-> FromRatio(1, 10), variance |-> FromInt(4)],
   [rating_g2 |-> [mu |-> Zero, phi |-> One, sigma |-> FromRatio(6, 100)],
    difference |-> FromRatio(1, 10), variance |-> Pow2(600)],
   [rating_g2 |-> [mu |-> Zero, phi |-> One, sigma |-> Pow2(600)],
    difference |-> FromRatio(1, 10), variance |-> FromInt(4)],
   [rating_g2 |-> [mu |-> Zero, phi |-> One, sigma |-> FromRatio(6, 100)],
    difference |-> Pow2(600), variance |-> Million],
   [rating_g2 |-> [mu |-> Zero, phi |-> Pow2(600), sigma |-> FromRatio(6, 100)],
    difference |-> Zero, variance |-> Million]}

loopContext == sigmaContext(sgArgs.rating_g2, sgArgs.difference, sgArgs.variance)

InitLoop ==
  /\ CoreIdle
  /\ HandlerIdle
  /\ sgArgs \in LoopArgs
  /\ sgRun = NoRun
  /\ sgLoop = NoLoop

\* The initial bounds A and B, f_a and f_b
Bracket ==
  /\ sgArgs # NoArgs
  /\ sgLoop = NoLoop
  /\ sgLoop' = loopStart(loopContext, initialB(loopContext))
  /\ UNCHANGED <<sgArgs, sgRun, coreVars, handlerVars>>

\* One test of the condition of the loop and, if it holds, one pass
Iterate ==
  /\ sgLoop.exit = "run"
  /\ sgLoop' = ConvergeStep(loopContext, sgLoop)
  /\ UNCHANGED <<sgArgs, sgRun, coreVars, handlerVars>>

\* The return from inside the loop or after it
Return ==
  /\ sgLoop.exit \notin {"none", "run"}
  /\ sgRun = NoRun
  /\ sgRun' = [NoRun EXCEPT !.sigma = loopReturn(sgLoop),
                            !.iter = sgLoop.iter, !.exit = sgLoop.exit]
  /\ UNCHANGED <<sgArgs, sgLoop, coreVars, handlerVars>>

NextLoop == Bracket \/ Iterate \/ Return

SpecLoop == InitLoop /\ [][NextLoop]_vars

(***************************************************************************)
(* index.ts: the request handler.  An invocation runs from one await to    *)
(* the next in one step; invocations interleave at the awaits.             *)
(***************************************************************************)
\* return new Response(...): the invocation ends with this response
respond(h, code, kind) ==
  [h EXCEPT !.pc = "done", !.response = [status |-> code, kind |-> kind]]

\* The invocation has made this call.
called(h, what) == [h EXCEPT !.trace = Append(@, what)]

\* A handler that does not look at the status of the match
statusAny(matchData) == TRUE

\* matchData.status === 'confirmed'
statusConfirmed(matchData) == matchData.status = "confirmed"

\* matchData.score && matchData.score.winner_id && matchData.score.sets
hasScoreData(matchData) ==
  /\ matchData.score.present
  /\ matchData.score.winner_id # ""
  /\ matchData.score.hasSets

\* The request arrives: OPTIONS, a method other than POST, a body that is
\* not JSON (req.json() throws), a body without matchId, or a matchId.
received(h, method, body) ==
  IF method = "OPTIONS" THEN respond([h EXCEPT !.method = method], 200, "ok")
  ELSE IF method # "POST"
    THEN respond([h EXCEPT !.method = method], 405, "methodNotAllowed")
  ELSE IF body = "invalid"
    THEN respond([h EXCEPT !.method = method], 500, "unexpected")
  ELSE IF body = ""
    THEN respond([h EXCEPT !.method = method], 400, "missingMatchId")
  ELSE [h EXCEPT !.method = method, !.matchId = body, !.pc = "fetchMatch"]

\* select('id, player1_id, player2_id, score, status')
selectMatch(row) == [row EXCEPT !.rating_updated_at = ""]

\* What the query for the match can answer: an error, no error and no row,
\* or the row
matchOutcomes(id) ==
  IF id \in DOMAIN matches THEN {"error", "row"} ELSE {"error", "null"}
matchRow(id) ==
  IF id \in DOMAIN matches THEN selectMatch(matches[id]) ELSE NoMatch

\* 1. the answer of the query for the match, 2. the status and the score
matchFetched(h, outcome, row) ==
  IF outcome = "error" THEN respond(h, 500, "matchFetchError")
  ELSE IF outcome = "null" THEN respond(h, 404, "matchNotFound")
  ELSE IF ~statusConfirmed(row)
    THEN respond([h EXCEPT !.matchData = row], 200, "skipped")
  ELSE IF ~hasScoreData(row)
    THEN respond([h EXCEPT !.matchData = row], 400, "missingScoreData")
  ELSE [h EXCEPT !.matchData = row, !.pc = "fetchProfiles"]

\* from('profiles') ... in('id', playerIds)
profilesIn(playerIds) ==
  {profiles[id] : id \in playerIds \cap DOMAIN profiles}
find(profilesData, id) == CHOOSE p \in profilesData : p.id = id

ratingOf(profile) ==
  [mu |-> profile.rating_mu, phi |-> profile.rating_phi,
   sigma |-> profile.rating_sigma]

\* The games of player who (1 or 2) summed over score.sets
RECURSIVE gamesWon(_, _)
gamesWon(sets, who) ==
  IF sets = <<>> THEN 0 ELSE Head(sets)[who] + gamesWon(Tail(sets), who)

matchStatusForRating(matchData) ==
  IF matchData.score.retired_player_id # "" THEN "retired" ELSE "completed"

isP1Winner(matchData) == matchData.score.winner_id = matchData.player1_id
update_time == "update_time"

\* Arguments that carry the rating player 2 had, not the new one
rpcParamsStaleOpponent(matchData, player1Profile, player2Profile, upd) ==
  [p_match_id |-> matchData.id,
   p1_id |-> matchData.player1_id,
   p1_mu |-> upd.player_new.mu, p1_phi |-> upd.player_new.phi,
   p1_sigma |-> upd.player_new.sigma,
   p1_wins |-> player1Profile.wins + (IF isP1Winner(matchData) THEN 1 ELSE 0),
   p1_losses |->
     player1Profile.losses + (IF isP1Winner(matchData) THEN 0 ELSE 1),
   p2_id |-> matchData.player2_id,
   p2_mu |-> player2Profile.rating_mu, p2_phi |-> player2Profile.rating_phi,
   p2_sigma |-> player2Profile.rating_sigma,
   p2_wins |-> player2Profile.wins + (IF isP1Winner(matchData) THEN 0 ELSE 1),
   p2_losses |->
     player2Profile.losses + (IF isP1Winner(matchData) THEN 1 ELSE 0),
   p_match_time |-> update_time]

\* 6. and 7. the arguments of update_ratings_transaction: the new ratings
\* and the counters read plus the increments
rpcParams(matchData, player1Profile, player2Profile, upd) ==
  [p_match_id |-> matchData.id,
   p1_id |-> matchData.player1_id,
   p1_mu |-> upd.player_new.mu, p1_phi |-> upd.player_new.phi,
   p1_sigma |-> upd.player_new.sigma,
   p1_wins |-> player1Profile.wins + (IF isP1Winner(matchData) THEN 1 ELSE 0),
   p1_losses |->
     player1Profile.losses + (IF isP1Winner(matchData) THEN 0 ELSE 1),
   p2_id |-> matchData.player2_id,
   p2_mu |-> upd.opponent_new.mu, p2_phi |-> upd.opponent_new.phi,
   p2_sigma |-> upd.opponent_new.sigma,
   p2_wins |-> player2Profile.wins + (IF isP1Winner(matchData) THEN 0 ELSE 1),
   p2_losses |->
     player2Profile.losses + (IF isP1Winner(matchData) THEN 1 ELSE 0),
   p_match_time |-> update_time]

\* 5. to 7. up to the await of the RPC, from what calculateGlickoTRUpdate
\* returned
calculated(h, player1Profile, player2Profile, upd) ==
  CASE InOrder(<<upd>>) ->
    [h EXCEPT !.player1Profile = player1Profile,
              !.player2Profile = player2Profile,
              !.update = upd,
              !.params = rpcParams(h.matchData, player1Profile,
                                   player2Profile, upd),
              !.trace = Append(@, "calculateGlickoTRUpdate"),
              !.pc = "rpc"]

\* 4. and 5. the ratings and the games, and the call of the core
prepared(h, player1Profile, player2Profile) ==
  calculated(h, player1Profile, player2Profile,
             calculateGlickoTRUpdate(
               ratingOf(player1Profile), ratingOf(player2Profile),
               FromInt(gamesWon(h.matchData.score.sets, 1)),
               FromInt(gamesWon(h.matchData.score.sets, 2)),
               matchStatusForRating(h.matchData)))

\* 3. the answer of the query for the profiles
profilesFetched(h, profileError, profilesData) ==
  IF profileError THEN respond(h, 500, "profileFetchError")
  ELSE IF Cardinality(profilesData) # 2
    THEN respond(h, 404, "profilesNotFound")
  ELSE prepared(h, find(profilesData, h.matchData.player1_id),
                find(profilesData, h.matchData.player2_id))

\* update_ratings_transaction, as the README describes it: in one
\* transaction the two profiles get their rating and counters, the match
\* its rating_updated_at and, depending on the implementation, its status.
transactionProfiles(p) ==
  [profiles EXCEPT
     ![p.p1_id] = [id |-> p.p1_id, rating_mu |-> p.p1_mu,
                   rating_phi |-> p.p1_phi, rating_sigma |-> p.p1_sigma,
                   wins |-> p.p1_wins, losses |-> p.p1_losses],
     ![p.p2_id] = [id |-> p.p2_id, rating_mu |-> p.p2_mu,
                   rating_phi |-> p.p2_phi, rating_sigma |-> p.p2_sigma,
                   wins |-> p.p2_wins, losses |-> p.p2_losses]]
transactionMatches(p) ==
  [matches EXCEPT
     ![p.p_match_id] = [@ EXCEPT !.rating_updated_at = p.p_match_time,
                                 !.status = IF rpcMarksRated THEN "rated"
                                            ELSE @]]

InitH ==
  /\ CoreIdle
  /\ SigmaIdle
  /\ matches = InitMatches
  /\ profiles = InitProfiles
  /\ hs = [x \in Handlers |-> NoInvocation]
  /\ rpcLog = <<>>
  /\ rpcMarksRated \in BOOLEAN

Receive(x) ==
  /\ hs[x].pc = "idle"
  /\ \E method \in Methods, body \in Bodies :
       hs' = [hs EXCEPT ![x] = received(@, method, body)]
  /\ UNCHANGED <<matches, profiles, rpcLog, rpcMarksRated, coreVars, sigmaVars>>

FetchMatch(x) ==
  /\ hs[x].pc = "fetchMatch"
  /\ \E outcome \in matchOutcomes(hs[x].matchId) :
       hs' = [hs EXCEPT ![x] = matchFetched(called(@, "matches"), outcome,
                                            matchRow(hs[x].matchId))]
  /\ UNCHANGED <<matches, profiles, rpcLog, rpcMarksRated, coreVars, sigmaVars>>

FetchProfiles(x) ==
  /\ hs[x].pc = "fetchProfiles"
  /\ \E profileError \in BOOLEAN :
       hs' = [hs EXCEPT ![x] =
                profilesFetched(called(@, "profiles"), profileError,
                                profilesIn({hs[x].matchData.player1_id,
                                            hs[x].matchData.player2_id}))]
  /\ UNCHANGED <<matches, profiles, rpcLog, rpcMarksRated, coreVars, sigmaVars>>

Rpc(x) ==
  /\ hs[x].pc = "rpc"
  /\ \E rpcError \in BOOLEAN :
       IF rpcError
         THEN /\ hs' = [hs EXCEPT ![x] = respond(called(@, "rpc"), 500,
                                                 "rpcFailed")]
              /\ UNCHANGED <<matches, profiles, rpcLog>>
         ELSE /\ profiles' = transactionProfiles(hs[x].params)
              /\ matches' = transactionMatches(hs[x].params)
              /\ rpcLog' = Append(rpcLog, [by |-> x, params |-> hs[x].params])
              /\ hs' = [hs EXCEPT ![x] = respond(called(@, "rpc"), 200,
                                                 "success")]
  /\ UNCHANGED <<rpcMarksRated, coreVars, sigmaVars>>

NextH ==
  \E x \in Handlers : Receive(x) \/ FetchMatch(x) \/ FetchProfiles(x) \/ Rpc(x)

SpecH == InitH /\ [][NextH]_vars


(***************************************************************************)
(* Properties of calculateGlickoTRUpdate                                   *)
(***************************************************************************)
positiveWeight == pc \in {"player", "opponent", "scaleUp"}
                  \/ (pc = "returned" /\ FGt(matchWeight, Zero))

\* C1: a call whose match weight is <= 0 (walkover, retired without a game,
\* an unknown status) returns the two ratings it was given, equal in rating,
\* deviation and volatility, and has scaled and computed nothing.
C1_ZeroWeightIdentity ==
  (pc = "returned" /\ FLe(matchWeight, Zero)) =>
    /\ result.player_new = playerRating
    /\ result.opponent_new = opponentRating
    /\ player_g2 = NoRating /\ opponent_g2 = NoRating
    /\ pl = NoBlock /\ op = NoBlock

C1_Witness ==
  /\ pc = "returned"
  /\ status = "retired"
  /\ playerGames + opponentGames = 0
  /\ matchWeight = Zero
  /\ result = [player_new |-> playerRating, opponent_new |-> opponentRating]

\* C2: for a standard match the weight is 0 for a walkover, 1 for a completed
\* match whatever the score, and for a retired match min(1, total/18) * 0.8:
\* 0 without a game, 0.4 at 9 games, 0.8 from 18 games on, never above 0.8
\* (between, 45 * weight = 2 * total up to rounding).
C2_StandardWeight ==
  (pc # "call" /\ event_category = "standard_match" /\ ~is_public_event) =>
    /\ status = "walkover" => matchWeight = Zero
    /\ status = "completed" => matchWeight = One
    /\ status = "retired" =>
         /\ playerGames + opponentGames <= 0 => matchWeight = Zero
         /\ playerGames + opponentGames = 9 => matchWeight = FromRatio(4, 10)
         /\ playerGames + opponentGames >= 18 =>
              matchWeight = FromRatio(8, 10)
         /\ FLe(matchWeight, FromRatio(8, 10))
         /\ FLt(FAbs(FSub(FMul(matchWeight, FromInt(45)),
                          FMin(FromInt(2 * (playerGames + opponentGames)),
                               FromInt(36)))),
                FromRatio(1, 10000))

C2_Witness ==
  /\ pc = "player"
  /\ event_category = "standard_match" /\ ~is_public_event
  /\ status = "retired"
  /\ playerGames + opponentGames = 9
  /\ matchWeight = FromRatio(4, 10)

\* C3: the weight the update uses is the documented one: 0.6 for a tiebreak
\* event with a score (0 without, 0 for a walkover), and the base weight
\* times 1.2 when the event is public.
C3_DocumentedWeight ==
  pc # "call" =>
    matchWeight = documentedWeight(event_category, is_public_event, status,
                                   FromInt(playerGames),
                                   FromInt(opponentGames))

\* C4: with a positive weight, what the opponent's block computes is computed
\* from the player's rating as scaled down from the argument, not from the
\* rating the player's block produced, and the player's block from the
\* opponent's scaled-down rating; the scaled-down ratings are not changed.
C4_PreUpdateRatings ==
  /\ positiveWeight =>
       /\ player_g2 = scaleDown(playerRating)
       /\ opponent_g2 = scaleDown(opponentRating)
  /\ (positiveWeight /\ pc # "player") =>
       /\ pl.impact = reduceImpact(scaleDown(opponentRating))
       /\ pl.expectedScore =
            expectScore(scaleDown(playerRating), scaleDown(opponentRating),
                        pl.impact)
  /\ (positiveWeight /\ pc \in {"scaleUp", "returned"}) =>
       /\ op.impact = reduceImpact(scaleDown(playerRating))
       /\ op.expectedScore =
            expectScore(scaleDown(opponentRating), scaleDown(playerRating),
                        op.impact)
  /\ pc = "scaleUp" =>
       op = perspective(scaleDown(opponentRating), scaleDown(playerRating),
                        matchWeight, op.actualScore)

\* The player's block has changed the player's rating, and the opponent's
\* block would have computed another impact from it.
C4_Witness ==
  /\ pc = "returned"
  /\ FGt(matchWeight, Zero)
  /\ pl.updated_g2 # player_g2
  /\ reduceImpact(pl.updated_g2) # op.impact
  /\ op.impact = reduceImpact(player_g2)

\* C5: the call with the two competitors and their scores exchanged returns
\* the two ratings of the first call exchanged, exactly.
C5_Symmetry ==
  (pc = "returned" /\ swapped) =>
    /\ result.player_new = first.opponent_new
    /\ result.opponent_new = first.player_new


\* The three numbers of a rating are finite.
finiteRating(r) == isFinite(r.mu) /\ isFinite(r.phi) /\ isFinite(r.sigma)

\* C11: a call with deviations >= 0, volatilities > 0 and scores >= 0
\* returns two ratings whose rating, deviation and volatility are finite.
C11_FiniteResult ==
  pc = "returned" =>
    (finiteRating(result.player_new) /\ finiteRating(result.opponent_new))

\* A completed standard match with equal scores > 0 between two competitors
\* with equal deviations and different ratings has returned.
equalScoreCall ==
  /\ pc = "returned"
  /\ event_category = "standard_match"
  /\ status = "completed"
  /\ playerGames = opponentGames
  /\ playerGames > 0
  /\ playerRating.phi = opponentRating.phi
  /\ playerRating.mu # opponentRating.mu

\* Both actual scores are 0.5, the lower rating has grown and the higher
\* rating has shrunk, strictly.
towardEachOther ==
  /\ pl.actualScore = OneHalf
  /\ op.actualScore = OneHalf
  /\ IF FLt(playerRating.mu, opponentRating.mu)
       THEN /\ FGt(result.player_new.mu, playerRating.mu)
            /\ FLt(result.opponent_new.mu, opponentRating.mu)
       ELSE /\ FLt(result.player_new.mu, playerRating.mu)
            /\ FGt(result.opponent_new.mu, opponentRating.mu)

\* The two ratings given are in [0, 5000] and at least one point apart.
inRangeApart ==
  /\ FGe(playerRating.mu, min_rating) /\ FLe(playerRating.mu, max_rating)
  /\ FGe(opponentRating.mu, min_rating) /\ FLe(opponentRating.mu, max_rating)
  /\ FGe(FAbs(FSub(playerRating.mu, opponentRating.mu)), One)

C13_DefaultSixLove ==
  (/\ pc = "returned"
   /\ playerRating = createDefaultRating
   /\ opponentRating = createDefaultRating
   /\ status = "completed"
   /\ playerGames + opponentGames = 6
   /\ playerGames * opponentGames = 0) =>
    /\ playerGames = 6 =>
         /\ FGt(result.player_new.mu, DEFAULT_MU)
         /\ FLt(result.opponent_new.mu, DEFAULT_MU)
    /\ opponentGames = 6 =>
         /\ FLt(result.player_new.mu, DEFAULT_MU)
         /\ FGt(result.opponent_new.mu, DEFAULT_MU)
    /\ FLt(result.player_new.phi, DEFAULT_PHI)
    /\ FLt(result.opponent_new.phi, DEFAULT_PHI)

C13_Witness ==
  /\ pc = "returned"
  /\ ~swapped
  /\ playerRating = createDefaultRating
  /\ opponentRating = createDefaultRating
  /\ status = "completed"
  /\ playerGames = 6 /\ opponentGames = 0
  /\ FGt(result.player_new.mu, FromInt(1600))
  /\ FLt(result.opponent_new.mu, FromInt(1400))
  /\ FLt(result.player_new.phi, FromInt(220))

\* x is in [0, 5000].
inRatingRange(x) == FGe(x, min_rating) /\ FLe(x, max_rating)

\* scaleUp has returned public from internal: the rating mu * 173.7178 + 1500
\* clamped, the deviation phi * 173.7178, the volatility as it is.
scaledUp(public, internal) ==
  /\ public.mu = FMax(FromInt(0),
                      FMin(FAdd(FMul(internal.mu, SCALING_FACTOR),
                                FromInt(1500)),
                           FromInt(5000)))
  /\ public.phi = FMul(internal.phi, SCALING_FACTOR)
  /\ public.sigma = internal.sigma

\* x and y differ by at most 8 units in the last place of a number of the
\* size of scale.
closeTo(x, y, scale) ==
  FLe(FAbs(FSub(x, y)), FMul(FAbs(scale), Pow2(4 - MantBits)))

\* C16: a rating returned by an update with a positive weight is in
\* [0, 5000], and the results are the internal ratings converted as scaleUp
\* is described.
C16_ReturnedInRange ==
  (pc = "returned" /\ FGt(matchWeight, Zero)) =>
    /\ inRatingRange(result.player_new.mu)
    /\ inRatingRange(result.opponent_new.mu)
    /\ scaledUp(result.player_new, pl.updated_g2)
    /\ scaledUp(result.opponent_new, op.updated_g2)

\* C16, the round trip: a rating in [0, 5000] converted to the internal
\* scale and back is the same rating, deviation and volatility.
C16_ExactRoundTrip ==
  /\ inRatingRange(playerRating.mu) =>
       scaleUp(scaleDown(playerRating)) = playerRating
  /\ inRatingRange(opponentRating.mu) =>
       scaleUp(scaleDown(opponentRating)) = opponentRating

\* The rating r converted to the internal scale and back is r up to
\* rounding, its volatility exactly.
roundTripClose(r) ==
  /\ closeTo(scaleUp(scaleDown(r)).mu, r.mu, max_rating)
  /\ closeTo(scaleUp(scaleDown(r)).phi, r.phi, r.phi)
  /\ scaleUp(scaleDown(r)).sigma = r.sigma

\* C16, as far as it holds: a rating returned by an update with a positive
\* weight is in [0, 5000] unless it is NaN, the results are the internal
\* ratings converted as scaleUp is described, and a rating in [0, 5000]
\* converted to the internal scale and back differs from the rating and the
\* deviation by rounding only and has the same volatility.
C16_ScaleBack ==
  /\ (pc = "returned" /\ FGt(matchWeight, Zero)) =>
       /\ IsNaN(result.player_new.mu) \/ inRatingRange(result.player_new.mu)
       /\ IsNaN(result.opponent_new.mu)
            \/ inRatingRange(result.opponent_new.mu)
       /\ scaledUp(result.player_new, pl.updated_g2)
       /\ scaledUp(result.opponent_new, op.updated_g2)
  /\ inRatingRange(playerRating.mu) => roundTripClose(playerRating)
  /\ inRatingRange(opponentRating.mu) => roundTripClose(opponentRating)

\* The clamp has acted on a result, and a rating in the range does not come
\* back exactly.
C16_Witness ==
  /\ pc = "returned"
  /\ FGt(matchWeight, Zero)
  /\ FGt(FAdd(FMul(pl.updated_g2.mu, SCALING_FACTOR), DEFAULT_MU), max_rating)
  /\ result.player_new.mu = max_rating
  /\ result.player_new.phi = FMul(pl.updated_g2.phi, SCALING_FACTOR)

\* The arguments of the call of determineSigma in a block, and the branch it
\* took: difference ** 2 <= phi ** 2 + variance and the search, with the
\* match weight <= 1, the impact in [0, 1], the expected score in
\* [0.1, 0.9], |difference| <= 0.9 and the variance >= 4.
solverArguments(block, self_g2) ==
  /\ FLe(matchWeight, One)
  /\ FGe(block.impact, Zero) /\ FLe(block.impact, One)
  /\ FGe(block.expectedScore, CLAMP_EPSILON)
  /\ FLe(block.expectedScore, FSub(One, CLAMP_EPSILON))
  /\ FLe(FAbs(block.diffTerm), FSub(One, CLAMP_EPSILON))
  /\ FGe(block.clampedVariance, FromInt(4))
  /\ FLe(Sq(block.diffTerm), FAdd(Sq(self_g2.phi), block.clampedVariance))
  /\ ~FGt(Sq(block.diffTerm), FAdd(Sq(self_g2.phi), block.clampedVariance))
  /\ block.run.branch = "search"

calledCore(h) ==
  \E i \in DOMAIN h.trace : h.trace[i] = "calculateGlickoTRUpdate"
calledRpc(h) == \E i \in DOMAIN h.trace : h.trace[i] = "rpc"

\* What the invocation holds when every check of the handler has passed:
\* the match of the request, confirmed, with its score data, and the
\* profiles of its two players with their ratings
validPath(h) ==
  /\ h.method = "POST"
  /\ h.matchId # ""
  /\ h.matchData.id = h.matchId
  /\ h.matchData.status = "confirmed"
  /\ h.matchData.score.present
  /\ h.matchData.score.winner_id # ""
  /\ h.matchData.score.hasSets
  /\ h.player1Profile.id = h.matchData.player1_id
  /\ h.player2Profile.id = h.matchData.player2_id
  /\ h.player1Profile.id # h.player2Profile.id
  /\ isFinite(h.player1Profile.rating_mu)
  /\ isFinite(h.player2Profile.rating_mu)

\* The responses of the paths that end before the call of the core
EarlyKinds ==
  {"ok", "methodNotAllowed", "unexpected", "missingMatchId",
   "matchFetchError", "matchNotFound", "skipped", "missingScoreData",
   "profileFetchError", "profilesNotFound"}

\* C6: an invocation calls calculateGlickoTRUpdate and
\* update_ratings_transaction only with the match found and confirmed, its
\* winner_id and sets present and both profiles found; an invocation that
\* ends on any other path has called neither, holds no computed rating and
\* has written nothing; the tables change only by such a write.
C6_OnlyValidPath ==
  /\ \A x \in Handlers :
       /\ (calledCore(hs[x]) \/ calledRpc(hs[x]) \/ hs[x].pc = "rpc") =>
            validPath(hs[x])
       /\ (hs[x].pc = "done" /\ hs[x].response.kind \in EarlyKinds) =>
            /\ ~calledCore(hs[x])
            /\ ~calledRpc(hs[x])
            /\ hs[x].update = NoResult
            /\ hs[x].params = NoParams
            /\ \A i \in DOMAIN rpcLog : rpcLog[i].by # x
  /\ \A i \in DOMAIN rpcLog : validPath(hs[rpcLog[i].by])
  /\ (\A x \in Handlers : ~calledRpc(hs[x])) =>
       (profiles = InitProfiles /\ matches = InitMatches)

\* One invocation has updated the ratings of a valid match, another has
\* ended because a profile is missing, without a call of the core.
C6_Witness ==
  \E x, y \in Handlers :
    /\ hs[x].response.kind = "success"
    /\ validPath(hs[x])
    /\ calledCore(hs[x])
    /\ hs[y].response.kind = "profilesNotFound"
    /\ ~calledCore(hs[y])

\* The calls of an invocation in the order of the code
CallOrder == <<"matches", "profiles", "calculateGlickoTRUpdate", "rpc">>
isPrefix(s, t) == Len(s) <= Len(t) /\ \A i \in DOMAIN s : s[i] = t[i]

\* The arguments of the RPC are the match id, the two new ratings the core
\* returned, the counters read plus one win and one loss, and the time.
paramsCarry(h) ==
  /\ h.params.p_match_id = h.matchData.id
  /\ h.params.p1_id = h.matchData.player1_id
  /\ h.params.p2_id = h.matchData.player2_id
  /\ h.params.p1_mu = h.update.player_new.mu
  /\ h.params.p1_phi = h.update.player_new.phi
  /\ h.params.p1_sigma = h.update.player_new.sigma
  /\ h.params.p2_mu = h.update.opponent_new.mu
  /\ h.params.p2_phi = h.update.opponent_new.phi
  /\ h.params.p2_sigma = h.update.opponent_new.sigma
  /\ h.params.p1_wins + h.params.p1_losses =
       h.player1Profile.wins + h.player1Profile.losses + 1
  /\ h.params.p2_wins + h.params.p2_losses =
       h.player2Profile.wins + h.player2Profile.losses + 1
  /\ h.params.p1_wins + h.params.p2_wins =
       h.player1Profile.wins + h.player2Profile.wins + 1
  /\ h.params.p_match_time = update_time

\* The last transaction that wrote the profile id (0: none)
RECURSIVE lastFor(_, _)
lastFor(id, i) ==
  IF i = 0 THEN 0
  ELSE IF id \in {rpcLog[i].params.p1_id, rpcLog[i].params.p2_id} THEN i
  ELSE lastFor(id, i - 1)

\* The row a transaction with arguments p gives the profile id
profileWritten(id, p) ==
  IF p.p1_id = id
    THEN [id |-> id, rating_mu |-> p.p1_mu, rating_phi |-> p.p1_phi,
          rating_sigma |-> p.p1_sigma, wins |-> p.p1_wins,
          losses |-> p.p1_losses]
    ELSE [id |-> id, rating_mu |-> p.p2_mu, rating_phi |-> p.p2_phi,
          rating_sigma |-> p.p2_sigma, wins |-> p.p2_wins,
          losses |-> p.p2_losses]

\* C7: an invocation makes its calls in the order match, profiles, core,
\* RPC, each at most once; the one RPC carries the match id, both new
\* ratings, the incremented counters and the time; and in every state of the
\* tables each profile is as the last transaction that named it wrote it
\* (both profiles of a transaction, or neither) and a match has its
\* rating_updated_at exactly if a transaction for it was applied.
C7_ReadsComputeOneWrite ==
  /\ \A x \in Handlers :
       /\ isPrefix(hs[x].trace, CallOrder)
       /\ calledCore(hs[x]) => paramsCarry(hs[x])
       /\ Cardinality({i \in DOMAIN rpcLog : rpcLog[i].by = x}) <= 1
  /\ \A i \in DOMAIN rpcLog :
       /\ rpcLog[i].params = hs[rpcLog[i].by].params
       /\ hs[rpcLog[i].by].trace = CallOrder
  /\ \A id \in DOMAIN profiles :
       profiles[id] =
         IF lastFor(id, Len(rpcLog)) = 0 THEN InitProfiles[id]
         ELSE profileWritten(id, rpcLog[lastFor(id, Len(rpcLog))].params)
  /\ \A m \in DOMAIN matches :
       (matches[m].rating_updated_at # "") <=>
         (\E i \in DOMAIN rpcLog : rpcLog[i].params.p_match_id = m)

\* An invocation for m1 has made its four calls, and the ratings of both
\* players and the time of the match are written.
C7_Witness ==
  \E x \in Handlers :
    /\ hs[x].matchId = "m1"
    /\ hs[x].response.kind = "success"
    /\ hs[x].trace = CallOrder
    /\ profiles["A"].rating_mu = hs[x].update.player_new.mu
    /\ profiles["A"].rating_mu # InitProfiles["A"].rating_mu
    /\ profiles["B"].rating_mu = hs[x].update.opponent_new.mu
    /\ profiles["B"].rating_mu # InitProfiles["B"].rating_mu
    /\ matches["m1"].rating_updated_at = update_time

succeeded(h) == h.pc = "done" /\ h.response.kind = "success"
playersOf(row) == {row.player1_id, row.player2_id}

\* C8: when two invocations for two different matches have both updated the
\* ratings, a competitor of both matches has one more win or loss for each
\* of them: wins + losses has grown by exactly 2.
C8_Serialized ==
  \A x, y \in Handlers :
    (/\ x # y
     /\ succeeded(hs[x])
     /\ succeeded(hs[y])
     /\ hs[x].matchId # hs[y].matchId) =>
      \A id \in playersOf(hs[x].matchData) \cap playersOf(hs[y].matchData) :
        profiles[id].wins + profiles[id].losses =
          InitProfiles[id].wins + InitProfiles[id].losses + 2

\* C9: for every match, update_ratings_transaction has been applied at most
\* once.
C9_OneTransactionPerMatch ==
  \A m \in DOMAIN matches :
    Cardinality({i \in DOMAIN rpcLog : rpcLog[i].params.p_match_id = m}) <= 1

(***************************************************************************)
(* Properties of determineSigma                                            *)
(***************************************************************************)
\* C10: a call of determineSigma ends: the search for the lower bound stops
\* with k at most 100 after at most 100 evaluations of f, the refinement
\* loop is left after at most 100 iterations, and for a deviation in
\* [50,350]/173.7178, a volatility in [0.02,0.15], a difference in [-2,2] and
\* a variance in [0.1,1e6] the value returned is finite and positive.
C10_SolverTerminates ==
  sgRun # NoRun =>
    /\ sgRun.branch \in {"log", "search"}
    /\ sgRun.branch = "search" => sgRun.searchEnded
    /\ sgRun.k <= 100
    /\ sgRun.evals <= 100
    /\ sgRun.exit \in {"done", "break", "nonfinite", "samesign"}
    /\ sgRun.iter <= 100
    /\ isFinite(sgRun.sigma)
    /\ FGt(sgRun.sigma, Zero)

\* The search ran until the safety break stopped it, and the loop refined.
C10_Witness ==
  /\ sgRun.branch = "search"
  /\ sgRun.k = 100
  /\ sgRun.iter > 0
  /\ isFinite(sgRun.sigma)
  /\ FGt(sgRun.sigma, Zero)

\* The call took the search for b, and is at the first test of the
\* condition of the convergence loop.
searchedStart ==
  /\ sgLoop.exit = "run"
  /\ sgLoop.iter = 0
  /\ sgLoop.a = loopContext.alpha
  /\ ~FGt(loopContext.difference_squared,
          FAdd(Sq(loopContext.phi), loopContext.variance))

\* C14: when difference ** 2 <= phi ** 2 + variance, f_a = f(alpha) is > 0
\* and the search has stopped at a b with f_b < 0 or b < -700, so that f_a
\* and f_b have opposite signs at the first test of the loop.
C14_SearchBracket ==
  searchedStart =>
    /\ FGt(sgLoop.f_a, Zero)
    /\ FLt(sgLoop.f_b, Zero) \/ FLt(sgLoop.b, ExpLow)
    /\ FLt(FMul(sgLoop.f_a, sgLoop.f_b), Zero)

\* The condition of the convergence loop holds.
loopRuns(s) == FGt(FAbs(FSub(s.b, s.a)), EPSILON) /\ s.iter < max_iter

\* What the claim says is returned: the volatility given if variance < 1e6,
\* else 0.9 times it
fallbackSigma ==
  IF FLt(sgArgs.variance, Million) THEN sgArgs.rating_g2.sigma
  ELSE FMul(sgArgs.rating_g2.sigma, NineTenths)

\* C15: whenever the condition of the loop holds and f_a * f_b >= 0 (also
\* with f_b = 0), the call returns from inside the loop with the volatility
\* given if variance < 1e6 and 0.9 times it otherwise; what is returned then
\* is that value and not exp(b / 2).
C15_Fallback ==
  /\ [][(/\ sgLoop.exit = "run"
          /\ loopRuns(sgLoop)
          /\ FGe(FMul(sgLoop.f_a, sgLoop.f_b), Zero)) =>
           (/\ sgLoop'.exit = "samesign"
            /\ sgLoop'.ret = fallbackSigma
            /\ sgLoop'.b = sgLoop.b)]_vars
  /\ []((sgLoop.exit = "samesign" /\ sgRun # NoRun) =>
          sgRun.sigma = fallbackSigma)
  /\ []((sgLoop.exit \in {"done", "break"} /\ sgRun # NoRun) =>
          sgRun.sigma = FExp(FDiv(sgLoop.b, Two)))

\* A call has returned the volatility it was given because f_a * f_b >= 0.
C15_Witness ==
  /\ sgLoop.exit = "samesign"
  /\ FGe(FMul(sgLoop.f_a, sgLoop.f_b), Zero)
  /\ sgRun # NoRun
  /\ sgRun.sigma = sgArgs.rating_g2.sigma
  /\ FLt(sgArgs.variance, Million)

====
